---- MODULE Spec2Model ----
(***************************************************************************)
(* HelloFreshRecipes (src/hfrecipes.py): the recipe-to-PDF batch.          *)
(*                                                                         *)
(* Strings are sequences of one-character strings, so that split, replace  *)
(* and the filename normalisation work on characters as str does.          *)
(* The filesystem is the only state shared by the pool's workers.          *)
(***************************************************************************)
EXTENDS Integers, Sequences, FiniteSets, TLC

\* None where a str or a list is expected, and None where an amount is
None == <<"<None>">>
NoAmount == [kind |-> "none", h |-> 0]
NoneList == <<[none |-> TRUE]>>

(***************************************************************************)
(* Bounds of the model.                                                    *)
(***************************************************************************)
MaxWorkers == 2      \* os.cpu_count() ranges over 1..MaxWorkers
MaxRecipes == 2      \* length of recipes.json under Spec and SpecPool
MaxBatch == 5        \* length of recipes.json under SpecBatch (one worker)
MaxBody == 1         \* chunks of an image response body
MaxIngr == 5         \* ingredients of the recipe under SpecLayout
MaxSteps == 2        \* steps of the recipe under SpecLayout
MaxWhole == 20       \* integer part of an amount under SpecFormat
MaxPieces == 3       \* pieces a display name is built of under SpecDerive

(***************************************************************************)
(* Characters and str helpers.                                             *)
(***************************************************************************)
WJ == "<U+2060>"      \* the word joiner, one character
Quarter == "<1/4>"    \* the glyphs, one character each
Half == "<1/2>"
ThreeQuarters == "<3/4>"

SetMin(S) == CHOOSE x \in S : \A y \in S : x <= y

\* sub in s
Contains(s, sub) ==
    \E i \in 1..(Len(s) - Len(sub) + 1) : SubSeq(s, i, i + Len(sub) - 1) = sub

\* s.split(sep): left to right, non-overlapping
RECURSIVE split(_, _)
split(s, sep) ==
    LET hits == {i \in 1..(Len(s) - Len(sep) + 1) : SubSeq(s, i, i + Len(sep) - 1) = sep}
    IN  IF hits = {} THEN <<s>>
        ELSE LET i == SetMin(hits)
             IN  <<SubSeq(s, 1, i - 1)>> \o split(SubSeq(s, i + Len(sep), Len(s)), sep)

RECURSIVE join(_, _)
join(parts, sep) ==
    IF Len(parts) = 1 THEN parts[1]
    ELSE parts[1] \o sep \o join(Tail(parts), sep)

\* s.replace(old, new)
replace(s, old, new) == join(split(s, old), new)

RECURSIVE Digits(_)
Digits(n) ==
    IF n < 10 THEN <<ToString(n)>> ELSE Digits(n \div 10) \o <<ToString(n % 10)>>

\* An amount of recipes.json is null, an int, or a float; a float is kept in
\* hundredths (h = 1050 is 10.5).  str() of it, as Python prints it: an int
\* has no point, a float has at least one and at most two decimals.
str(amount) ==
    IF amount.kind = "none" THEN <<"N", "o", "n", "e">>
    ELSE IF amount.kind = "int" THEN Digits(amount.h \div 100)
    ELSE LET w == amount.h \div 100
             f == amount.h % 100
         IN  Digits(w) \o <<".">> \o
             (IF f % 10 = 0 THEN <<ToString(f \div 10)>>
              ELSE <<ToString(f \div 10), ToString(f % 10)>>)

\* amount is not None and amount > 1
GreaterThanOne(amount) == amount.kind # "none" /\ amount.h > 100

Space == <<" ">>
WithSep == <<" ", "w", "i", "t", "h">>
WithWord == <<"W", "i", "t", "h">>
UnitWord == <<"u", "n", "i", "t">>
Empty == <<>>

(***************************************************************************)
(* get_ingredient_details: the two text lines of an ingredient.            *)
(***************************************************************************)
get_ingredient_details(recipe, idx) ==
    LET amount_details == recipe.yields[1].ingredients[idx]
        amount0 == amount_details.amount
        pluralise == IF GreaterThanOne(amount0) THEN <<"s">> ELSE Empty
        amount == replace(replace(replace(str(amount0),
                      <<"0", ".", "2", "5">>, <<Quarter>>),
                      <<"0", ".", "5">>, <<Half>>),
                      <<"0", ".", "7", "5">>, <<ThreeQuarters>>)
        units == amount_details.unit
        name == recipe.ingredients[idx].name
    IN  IF units = None THEN <<name, Empty>>
        ELSE IF units = UnitWord THEN <<amount, name>>
        ELSE <<amount \o Space \o units \o pluralise, name>>

(***************************************************************************)
(* prepare_str                                                             *)
(***************************************************************************)
prepare_str(string, filename) ==
    IF string = None THEN Empty
    ELSE LET s1 == replace(replace(string, <<"\n">>, Space), <<WJ>>, Empty)
         IN  IF filename
             THEN replace(replace(s1, <<"\"">>, <<"'">>), <<"*">>, Empty)
             ELSE s1

(***************************************************************************)
(* The name/headline split of process_recipe (lines 159-161).  The result  *)
(* is the recipe after the statements, or the exception they raise.        *)
(***************************************************************************)
derive(name, headline) ==
    IF name = None
    THEN [ok |-> FALSE, error |-> "TypeError", name |-> name, headline |-> headline]
    ELSE IF ~Contains(name, WithSep)
    THEN [ok |-> TRUE, error |-> "", name |-> name, headline |-> headline]
    ELSE LET parts == split(name, WithSep)
         IN  IF Len(parts) # 2
             THEN [ok |-> FALSE, error |-> "ValueError", name |-> name, headline |-> headline]
             ELSE [ok |-> TRUE, error |-> "", name |-> parts[1],
                   headline |-> WithWord \o parts[2]]

(***************************************************************************)
(* State.                                                                  *)
(***************************************************************************)
VARIABLES
    recipes,    \* the content of recipes.json, a sequence of recipe records
    nworkers,   \* os.cpu_count(), the size of the Pool
    run,        \* which call of process_all_recipes this is (1 or 2)
    prev,       \* how the previous call ended: "returned", "raised", or "" (none)
    task,       \* per recipe of the sequence: where process_recipe stands
    dirs,       \* author directories that exist under recipes/
    out,        \* recipes/: output path -> the document written there
    cache,      \* tmp/: image file name -> the chunks of the body it holds
    log,        \* the makedirs, request, open and output calls of this call
    fmt,        \* get_ingredient_details on its own: input and result
    drv         \* the name/headline split on its own: input and result

vars == <<recipes, nworkers, run, prev, task, dirs, out, cache, log, fmt, drv>>
batchVars == <<recipes, nworkers, run, prev, task, dirs, out, cache, log>>

COMMON_INGREDIENTS ==
    { <<"S", "a", "l", "t">>, <<"P", "e", "p", "p", "e", "r">>,
      <<"S", "u", "g", "a", "r">>, <<"B", "u", "t", "t", "e", "r">> }

\* Python's truth of a str or None, and of a list or None
Truthy(v) == v # None /\ v # Empty
TruthyList(v) == Len(v) > 0 /\ "none" \notin DOMAIN v[1]

Terminal == {"SkippedMalformed", "SkippedExisting", "Rendered", "Failed", "Dropped"}

NoSite == [kind |-> "none", idx |-> 0]

PendingTask ==
    [pc |-> "pending", status |-> "Pending", name |-> None, headline |-> None,
     path |-> None, pdf |-> <<>>, num_ingr |-> 0, site |-> NoSite, chunk |-> 0,
     cause |-> ""]

(***************************************************************************)
(* The calls on the FPDF object: the document is the sequence of them.     *)
(* "of" names the item of the recipe a call was issued for.                *)
(***************************************************************************)
Draw(op, of, size, x, y, w, h, text, img, content) ==
    [op |-> op, of |-> of, size |-> size, x |-> x, y |-> y, w |-> w, h |-> h,
     text |-> text, img |-> img, content |-> content]

write(pdf, of, size, x, y, text) ==
    Append(pdf, Draw("write", of, size, x, y, 0, 0, text, None, ""))

multi_cell(pdf, of, size, x, y, width, height, text) ==
    Append(pdf, Draw("multi_cell", of, size, x, y, width, height, text, None, ""))

image(pdf, of, img, x, y, w, h, content) ==
    Append(pdf, Draw("image", of, 0, x, y, w, h, Empty, img, content))

floor4(n) == n \div 4                                       \* math.floor(n/4)
ceil4(n) == IF n % 4 = 0 THEN n \div 4 ELSE n \div 4 + 1    \* math.ceil(n/4)

IngrImageX(num_ingr) == 10 + 46 * (num_ingr % 4)
IngrImageY(num_ingr) == 62 + 13 * floor4(num_ingr)
IngrTextX(num_ingr) == 22 + 46 * (num_ingr % 4)
\* the rows of the grid rounded down, not up
StepsYFloor(num_ingr) == 67 + 13 * floor4(num_ingr)

StepsY(num_ingr) == 67 + 13 * ceil4(num_ingr)
StepY(num_ingr, idx) == StepsY(num_ingr) + (idx * 26)

Jpg == <<"j", "p", "g">>
Png == <<"p", "n", "g">>

\* the name save_image derives for the call at a site: <<name, ext>>
ImageName(r, site) ==
    IF site.kind = "main"
    THEN <<prepare_str(r.slug \o <<"-", "m", "a", "i", "n">>, TRUE), Jpg>>
    ELSE IF site.kind = "ingr"
    THEN <<prepare_str(r.ingredients[site.idx].name, TRUE), Png>>
    ELSE <<prepare_str(r.slug \o <<"-", "s", "t", "e", "p", "_">> \o Digits(site.idx - 1), TRUE),
           Jpg>>

\* lines 196-199: the two text lines of ingredient idx, then num_ingr += 1
IngrText(r, st, idx) ==
    LET ln == get_ingredient_details(r, idx)
        of == <<"ingr", idx>>
        p1 == write(st.pdf, of, 9, IngrTextX(st.num_ingr), 66 + 13 * floor4(st.num_ingr), ln[1])
        p2 == write(p1, of, 7, IngrTextX(st.num_ingr), 70 + 13 * floor4(st.num_ingr), ln[2])
    IN  [st EXCEPT !.pdf = p2, !.num_ingr = st.num_ingr + 1]

\* line 210: the instruction text of step idx (1-based here, 0-based there)
StepText(r, st, idx) ==
    [st EXCEPT !.pdf = multi_cell(st.pdf, <<"step", idx>>, 10, 50, StepY(st.num_ingr, idx - 1),
                                  145, 4, prepare_str(r.steps[idx].instructions, FALSE))]

\* the step loop leaving out the last step
RECURSIVE StepLoopShort(_, _, _)
StepLoopShort(r, st, idx) ==
    IF idx >= Len(r.steps) THEN [st EXCEPT !.pc = "output", !.site = NoSite]
    ELSE LET step == r.steps[idx]
         IN  IF TruthyList(step.images) /\ Truthy(step.images[1].path)
             THEN [st EXCEPT !.pc = "isfile", !.site = [kind |-> "step", idx |-> idx]]
             ELSE StepLoopShort(r, StepText(r, st, idx), idx + 1)

\* lines 204-212 from step idx on: runs to the next save_image call, or to
\* pdf.output
RECURSIVE StepLoop(_, _, _)
StepLoop(r, st, idx) ==
    IF idx > Len(r.steps) THEN [st EXCEPT !.pc = "output", !.site = NoSite]
    ELSE LET step == r.steps[idx]
         IN  IF TruthyList(step.images) /\ Truthy(step.images[1].path)
             THEN [st EXCEPT !.pc = "isfile", !.site = [kind |-> "step", idx |-> idx]]
             ELSE StepLoop(r, StepText(r, st, idx), idx + 1)

\* the ingredient loop with an excluded ingredient taking up its slot
RECURSIVE IngrLoopCountsExcluded(_, _, _)
IngrLoopCountsExcluded(r, st, idx) ==
    IF idx > Len(r.ingredients) THEN StepLoop(r, st, 1)
    ELSE LET ingr == r.ingredients[idx]
         IN  IF ingr.name \in COMMON_INGREDIENTS
             THEN IngrLoopCountsExcluded(r, [st EXCEPT !.num_ingr = st.num_ingr + 1], idx + 1)
             ELSE IF Truthy(ingr.imagePath)
             THEN [st EXCEPT !.pc = "isfile", !.site = [kind |-> "ingr", idx |-> idx]]
             ELSE IngrLoopCountsExcluded(r, IngrText(r, st, idx), idx + 1)

\* lines 188-199 from ingredient idx on: runs to the next save_image call
RECURSIVE IngrLoop(_, _, _)
IngrLoop(r, st, idx) ==
    IF idx > Len(r.ingredients) THEN StepLoop(r, st, 1)
    ELSE LET ingr == r.ingredients[idx]
         IN  IF ingr.name \in COMMON_INGREDIENTS THEN IngrLoop(r, st, idx + 1)
             ELSE IF Truthy(ingr.imagePath)
             THEN [st EXCEPT !.pc = "isfile", !.site = [kind |-> "ingr", idx |-> idx]]
             ELSE IngrLoop(r, IngrText(r, st, idx), idx + 1)

\* pdf.image for the file save_image returned, then on to the next call
AfterImage(r, st, content) ==
    LET name == ImageName(r, st.site)
        of == <<st.site.kind, st.site.idx>>
    IN  IF st.site.kind = "main"
        THEN IngrLoop(r, [st EXCEPT !.pdf = image(st.pdf, of, name, 125, 10, 72, 0, content)], 1)
        ELSE IF st.site.kind = "ingr"
        THEN IngrLoop(r,
                 IngrText(r, [st EXCEPT !.pdf = image(st.pdf, of, name, IngrImageX(st.num_ingr),
                                                      IngrImageY(st.num_ingr), 0, 12, content)],
                          st.site.idx),
                 st.site.idx + 1)
        ELSE StepLoop(r,
                 StepText(r, [st EXCEPT !.pdf = image(st.pdf, of, name, 10,
                                                      StepY(st.num_ingr, st.site.idx - 1), 36, 0,
                                                      content)],
                          st.site.idx),
                 st.site.idx + 1)

\* lines 170-180: a new page and the four texts at the fixed anchors
Header(r, st) ==
    LET p1 == write(<<>>, <<"title", 0>>, 14, 10, 15, prepare_str(st.name, FALSE))
        p2 == write(p1, <<"headline", 0>>, 10, 10, 20, prepare_str(st.headline, FALSE))
        p3 == write(p2, <<"calories", 0>>, 10, 10, 25, Digits(r.nutrition[2].amount))
        p4 == multi_cell(p3, <<"description", 0>>, 7, 10, 30, 110, 4,
                         prepare_str(r.description, FALSE))
    IN  [st EXCEPT !.pdf = p4]

\* the check without its second half
MalformedStepsOnly(r) == ~TruthyList(r.steps)

\* line 156
Malformed(r) == ~TruthyList(r.steps) \/ ~TruthyList(r.ingredients)

\* lines 163-164
OutputPath(r, name) ==
    <<r.author, prepare_str(name \o <<".", "p", "d", "f">>, TRUE)>>

(***************************************************************************)
(* Pool.map: the sequence is cut into chunks of chunksize consecutive      *)
(* items; an idle worker takes the next chunk and runs its items in order. *)
(* An item that raises ends its chunk: the items after it are not run.     *)
(* map returns (or raises the first exception) once every chunk is done.   *)
(***************************************************************************)
chunksize ==
    LET d == nworkers * 4
    IN  IF Len(recipes) % d # 0 THEN Len(recipes) \div d + 1 ELSE Len(recipes) \div d

ChunkOf(t) == (t - 1) \div chunksize + 1
Chunks == {ChunkOf(t) : t \in DOMAIN task}
First(c) == (c - 1) * chunksize + 1
Taken(c) == task[First(c)].status # "Pending"
Busy(c) == \E t \in DOMAIN task : ChunkOf(t) = c /\ task[t].status = "Running"
AllDone == \A t \in DOMAIN task : task[t].status \in Terminal

Started == [PendingTask EXCEPT !.pc = "resolve", !.status = "Running"]

\* process_recipe returns or raises for item t: the worker goes on to the
\* next item of the chunk, or gives the chunk up
Finish(t, status, cause) ==
    [u \in DOMAIN task |->
        IF u = t
        THEN [PendingTask EXCEPT !.pc = "done", !.status = status, !.cause = cause,
                                 !.path = task[t].path, !.site = task[t].site]
        ELSE IF ChunkOf(u) = ChunkOf(t) /\ u > t /\ status = "Failed"
        THEN [PendingTask EXCEPT !.pc = "done", !.status = "Dropped"]
        ELSE IF ChunkOf(u) = ChunkOf(t) /\ u = t + 1
        THEN Started
        ELSE task[u]]

Event(t, op, name) == [run |-> run, t |-> t, op |-> op, name |-> name]

Full == 1..MaxBody                  \* the whole body of an image response

\* what pdf.image makes of a file: a whole image is placed; a truncated one
\* is placed as it is or makes the parser raise
ImageOutcomes(content) == IF content = Full THEN {"full"} ELSE {"partial", "error"}

(***************************************************************************)
(* Actions.                                                                *)
(***************************************************************************)
\* an idle worker takes chunk c off the task queue
Take(c) ==
    /\ c \in Chunks
    /\ ~Taken(c)
    /\ \A b \in Chunks : b < c => Taken(b)
    /\ Cardinality({b \in Chunks : Busy(b)}) < nworkers
    /\ task' = [task EXCEPT ![First(c)] = Started]
    /\ UNCHANGED <<recipes, nworkers, run, prev, dirs, out, cache, log, fmt, drv>>

\* lines 153-164: the malformed check, the name/headline split, the
\* destination directory (made if there is an author) and the output path
Resolve(t) ==
    /\ task[t].pc = "resolve"
    /\ LET r == recipes[t]
           d == derive(r.name, r.headline)
           go == ~Malformed(r) /\ d.ok
           mkdir == go /\ r.author # None
       IN  /\ task' = IF Malformed(r) THEN Finish(t, "SkippedMalformed", "")
                      ELSE IF ~d.ok THEN Finish(t, "Failed", d.error)
                      ELSE [task EXCEPT ![t].pc = "exists", ![t].name = d.name,
                                        ![t].headline = d.headline,
                                        ![t].path = OutputPath(r, d.name)]
           /\ dirs' = IF mkdir THEN dirs \cup {r.author} ELSE dirs
           /\ log' = IF mkdir THEN log \cup {Event(t, "makedirs", <<r.author, Empty>>)} ELSE log
    /\ UNCHANGED <<recipes, nworkers, run, prev, out, cache, fmt, drv>>

\* the check never finding the file
PathExistsNever(path) == path \in {}

\* line 165: os.path.exists(path)
PathExists(path) == path \in DOMAIN out

\* lines 165-183: the existence check, then the page and its fixed texts, up
\* to the call of save_image for the main image
Exists(t) ==
    /\ task[t].pc = "exists"
    /\ LET r == recipes[t]
       IN  task' = IF PathExists(task[t].path) THEN Finish(t, "SkippedExisting", "")
                   ELSE IF ~TruthyList(r.nutrition) THEN Finish(t, "Failed", "TypeError")
                   ELSE IF Len(r.nutrition) < 2 THEN Finish(t, "Failed", "IndexError")
                   ELSE [task EXCEPT ![t] = [Header(r, task[t]) EXCEPT
                                                !.pc = "isfile",
                                                !.site = [kind |-> "main", idx |-> 0]]]
    /\ UNCHANGED <<recipes, nworkers, run, prev, dirs, out, cache, log, fmt, drv>>

\* save_image lines 91-99: the file is there, or the image is requested; a
\* status other than 200 raises
IsFile(t) ==
    /\ task[t].pc = "isfile"
    /\ LET name == ImageName(recipes[t], task[t].site)
       IN  IF name \in DOMAIN cache
           THEN /\ task' = [task EXCEPT ![t].pc = "image"]
                /\ log' = log
           ELSE /\ \E status_code \in {200, 404} :
                      task' = IF status_code # 200 THEN Finish(t, "Failed", "fetch")
                              ELSE [task EXCEPT ![t].pc = "open"]
                /\ log' = log \cup {Event(t, "request", name)}
    /\ UNCHANGED <<recipes, nworkers, run, prev, dirs, out, cache, fmt, drv>>

\* save_image line 100: open(path, 'wb') creates the file or empties it
Open(t) ==
    /\ task[t].pc = "open"
    /\ LET name == ImageName(recipes[t], task[t].site)
       IN  /\ cache' = [n \in DOMAIN cache \cup {name} |-> IF n = name THEN {} ELSE cache[n]]
           /\ log' = log \cup {Event(t, "open", name)}
    /\ task' = [task EXCEPT ![t].pc = "write", ![t].chunk = 1]
    /\ UNCHANGED <<recipes, nworkers, run, prev, dirs, out, fmt, drv>>

\* save_image lines 101-104: one chunk of the body goes to the file; after
\* the last one the file is closed and its path returned
WriteChunk(t) ==
    /\ task[t].pc = "write"
    /\ cache' = [cache EXCEPT ![ImageName(recipes[t], task[t].site)] = @ \cup {task[t].chunk}]
    /\ task' = IF task[t].chunk = MaxBody
               THEN [task EXCEPT ![t].pc = "image", ![t].chunk = 0]
               ELSE [task EXCEPT ![t].chunk = @ + 1]
    /\ UNCHANGED <<recipes, nworkers, run, prev, dirs, out, log, fmt, drv>>

\* save_image line 101: the streamed response breaks off and iterating it
\* raises; what was written stays in the file
StreamFail(t) ==
    /\ task[t].pc = "write"
    /\ task' = Finish(t, "Failed", "stream")
    /\ UNCHANGED <<recipes, nworkers, run, prev, dirs, out, cache, log, fmt, drv>>

\* pdf.image (lines 184, 194, 209) reads the file save_image returned; then
\* the code runs on to the next save_image call or to pdf.output
Image(t) ==
    /\ task[t].pc = "image"
    /\ \E outcome \in ImageOutcomes(cache[ImageName(recipes[t], task[t].site)]) :
          task' = IF outcome = "error" THEN Finish(t, "Failed", "image")
                  ELSE [task EXCEPT ![t] = AfterImage(recipes[t], task[t], outcome)]
    /\ UNCHANGED <<recipes, nworkers, run, prev, dirs, out, cache, log, fmt, drv>>

\* line 212: pdf.output(path)
Output(t) ==
    /\ task[t].pc = "output"
    /\ LET path == task[t].path
       IN  /\ out' = [p \in DOMAIN out \cup {path} |->
                         IF p = path THEN task[t].pdf ELSE out[p]]
           /\ log' = log \cup {Event(t, "output", path)}
    /\ task' = Finish(t, "Rendered", "")
    /\ UNCHANGED <<recipes, nworkers, run, prev, dirs, cache, fmt, drv>>

\* process_all_recipes is over: it returned, or raised the exception of the
\* first recipe that failed; it is called once more on the same file
Rerun ==
    /\ run = 1
    /\ AllDone
    /\ run' = 2
    /\ prev' = IF \E t \in DOMAIN task : task[t].status = "Failed" THEN "raised" ELSE "returned"
    /\ task' = [t \in DOMAIN task |-> PendingTask]
    /\ log' = {}
    /\ UNCHANGED <<recipes, nworkers, dirs, out, cache, fmt, drv>>

Next ==
    \/ \E c \in 1..Len(recipes) : Take(c)
    \/ \E t \in DOMAIN task :
          \/ Resolve(t)
          \/ Exists(t)
          \/ IsFile(t)
          \/ Open(t)
          \/ WriteChunk(t)
          \/ StreamFail(t)
          \/ Image(t)
          \/ Output(t)
    \/ Rerun

\* one call of process_all_recipes
NextOnce ==
    \/ \E c \in 1..Len(recipes) : Take(c)
    \/ \E t \in DOMAIN task :
          \/ Resolve(t)
          \/ Exists(t)
          \/ IsFile(t)
          \/ Open(t)
          \/ WriteChunk(t)
          \/ StreamFail(t)
          \/ Image(t)
          \/ Output(t)

(***************************************************************************)
(* Recipe records, as json.load gives them.                                *)
(***************************************************************************)
Salt == <<"S", "a", "l", "t">>
Tomato == <<"T", "o", "m", "a", "t", "o">>
Basil == <<"B", "a", "s", "i", "l">>
Cup == <<"c", "u", "p">>
Soup == <<"S", "o", "u", "p">>
SoupWithRice == Soup \o WithSep \o <<" ", "R", "i", "c", "e">>
SoupWithRiceWithPeas == SoupWithRice \o WithSep \o <<" ", "P", "e", "a", "s">>
Ann == <<"A", "n", "n">>
Hot == <<"H", "o", "t">>

FloatAmount(h) == [kind |-> "float", h |-> h]
IntAmount(n) == [kind |-> "int", h |-> 100 * n]

Ingredient(name, imagePath) == [name |-> name, imagePath |-> imagePath]
Portion(amount, unit) == [amount |-> amount, unit |-> unit]
StepWith(images) == [images |-> images, instructions |-> <<"M", "i", "x">>]
Calories == <<[amount |-> 2000], [amount |-> 650]>>

\* the kinds of ingredient and of step that process_recipe tells apart
IngredientKinds ==
    { Ingredient(Salt, <<"s">>), Ingredient(Tomato, <<"t">>), Ingredient(Basil, None) }
StepKinds ==
    { StepWith(<<[path |-> <<"p">>]>>), StepWith(<<>>) }

Recipe(name, headline, author, slug, nutrition, ingredients, steps) ==
    [name |-> name, headline |-> headline, author |-> author, slug |-> slug,
     description |-> None, imagePath |-> <<"m">>, nutrition |-> nutrition,
     ingredients |-> ingredients,
     yields |-> <<[ingredients |->
                     IF TruthyList(ingredients)
                     THEN [i \in DOMAIN ingredients |-> Portion(FloatAmount(50 * i), Cup)]
                     ELSE <<>>]>>,
     steps |-> steps]

TomatoOnly == <<Ingredient(Tomato, <<"t">>)>>
SaltTomato == <<Ingredient(Salt, <<"s">>), Ingredient(Tomato, <<"t">>)>>
PlainStep == <<StepWith(<<>>)>>
ImageStep == <<StepWith(<<[path |-> <<"p">>]>>)>>

\* recipes that meet in the filesystem: the first two resolve to the same
\* output path in the same author directory, and a recipe listed twice
\* meets itself in tmp/ as well; the last three fail or are malformed
\* whatever else they hold
Archetypes ==
    { Recipe(Soup, Hot, Ann, <<"a">>, Calories, <<Ingredient(Basil, None)>>, PlainStep),
      Recipe(SoupWithRice, None, Ann, <<"b">>, Calories,
             <<Ingredient(Salt, <<"s">>), Ingredient(Basil, None)>>, PlainStep),
      Recipe(SoupWithRiceWithPeas, Hot, None, <<"c">>, Calories, TomatoOnly, PlainStep),
      Recipe(SoupWithRiceWithPeas, Hot, Ann, <<"d">>, NoneList, TomatoOnly, <<>>),
      Recipe(None, None, Ann, <<"e">>, NoneList, NoneList, ImageStep) }

\* two recipes that share nothing, for long sequences
BatchArchetypes ==
    { Recipe(Soup, Hot, None, <<"a">>, Calories, <<Ingredient(Basil, None)>>, PlainStep),
      Recipe(<<"P", "i", "e">>, None, None, <<"b">>, Calories,
             <<Ingredient(Basil, None)>>, PlainStep) }

RECURSIVE SeqsOf(_, _)
SeqsOf(S, n) ==     \* the sequences of exactly n elements of S
    IF n = 0 THEN {<<>>}
    ELSE {Append(q, x) : q \in SeqsOf(S, n - 1), x \in S}

SeqsUpTo(S, n) == UNION {SeqsOf(S, k) : k \in 0..n}

\* one recipe whose ingredient and step sequences range freely
LayoutRecipes ==
    { Recipe(Soup, Hot, None, <<"a">>, Calories, ingredients, steps) :
        ingredients \in SeqsUpTo(IngredientKinds, MaxIngr),
        steps \in SeqsUpTo(StepKinds, MaxSteps) }

\* a recipe with one ingredient, to call get_ingredient_details on
PortionRecipe(amount, unit) ==
    [Recipe(Soup, None, None, <<"a">>, Calories, <<Ingredient(Tomato, None)>>, PlainStep)
        EXCEPT !.yields = <<[ingredients |-> <<Portion(amount, unit)>>]>>]

Amounts ==
    {NoAmount} \cup {IntAmount(n) : n \in 0..MaxWhole}
               \cup {FloatAmount(h) : h \in 0..(100 * MaxWhole + 99)}
Units == {None, UnitWord, Cup}

\* display names: up to MaxPieces pieces, which may join to " with"
Pieces == {<<"A">>, WithSep, <<" ", "w">>, <<"i", "t", "h">>}
RECURSIVE Concat(_)
Concat(ps) == IF ps = <<>> THEN <<>> ELSE Head(ps) \o Concat(Tail(ps))
Names == {Concat(ps) : ps \in SeqsUpTo(Pieces, MaxPieces)} \cup {None}

IdleFmt == [recipe |-> PortionRecipe(NoAmount, None), idx |-> 1,
            result |-> <<None, None>>, done |-> FALSE]
IdleDrv == [name |-> None, headline |-> None, result |-> derive(None, None), done |-> FALSE]

(***************************************************************************)
(* The state after HelloFreshRecipes() with recipes.json in place: the     *)
(* directories recipes/ and tmp/ exist and are empty.                      *)
(***************************************************************************)
InitFiles(collections, workers) ==
    /\ recipes \in collections
    /\ nworkers \in workers
    /\ run = 1
    /\ prev = ""
    /\ task = [t \in DOMAIN recipes |-> PendingTask]
    /\ dirs = {}
    /\ out = <<>>
    /\ cache = <<>>
    /\ log = {}

InitWith(collections, workers) ==
    /\ InitFiles(collections, workers)
    /\ fmt = IdleFmt
    /\ drv = IdleDrv

Init == InitWith(SeqsUpTo(Archetypes, MaxRecipes) \ {<<>>}, 1..MaxWorkers)
Spec == Init /\ [][Next]_vars

\* recipes that share an ingredient image, and the output path as well
PoolArchetypes ==
    { Recipe(Soup, Hot, Ann, <<"a">>, Calories, TomatoOnly, PlainStep),
      Recipe(SoupWithRice, None, Ann, <<"b">>, Calories, SaltTomato, ImageStep) }

InitPool == InitWith(SeqsUpTo(PoolArchetypes, MaxRecipes) \ {<<>>}, 1..MaxWorkers)
SpecPool == InitPool /\ [][Next]_vars

InitBatch == InitWith(SeqsOf(BatchArchetypes, MaxBatch), {1})
SpecBatch == InitBatch /\ [][Next]_vars

InitLayout == InitWith({<<r>> : r \in LayoutRecipes}, {1})
SpecLayout == InitLayout /\ [][NextOnce]_vars

(***************************************************************************)
(* get_ingredient_details and the name/headline split, each on its own.    *)
(***************************************************************************)
Format ==
    /\ ~fmt.done
    /\ fmt' = [fmt EXCEPT !.result = get_ingredient_details(fmt.recipe, fmt.idx),
                          !.done = TRUE]
    /\ UNCHANGED <<batchVars, drv>>

InitFormat ==
    /\ InitFiles({<<>>}, {1})
    /\ \E amount \in Amounts, unit \in Units :
          fmt = [IdleFmt EXCEPT !.recipe = PortionRecipe(amount, unit)]
    /\ drv = IdleDrv

SpecFormat == InitFormat /\ [][Format]_vars

Derive ==
    /\ ~drv.done
    /\ drv' = [drv EXCEPT !.result = derive(drv.name, drv.headline), !.done = TRUE]
    /\ UNCHANGED <<batchVars, fmt>>

InitDerive ==
    /\ InitFiles({<<>>}, {1})
    /\ \E name \in Names, headline \in {None, Hot} :
          drv = [IdleDrv EXCEPT !.name = name, !.headline = headline]
    /\ fmt = IdleFmt

SpecDerive == InitDerive /\ [][Derive]_vars

(***************************************************************************)
(* What the properties speak about.                                        *)
(***************************************************************************)
Calls(t, ops) == {e \in log : e.t = t /\ e.op \in ops}

\* the recipe can be rendered: it is not malformed and its name splits
Renderable(r) == ~Malformed(r) /\ derive(r.name, r.headline).ok
ResolvedPath(r) == OutputPath(r, derive(r.name, r.headline).name)

Excluded(r, i) == r.ingredients[i].name \in COMMON_INGREDIENTS
RenderedIngr(r) == {i \in DOMAIN r.ingredients : ~Excluded(r, i)}
Slot(r, i) == Cardinality({j \in RenderedIngr(r) : j < i})
HasStepImage(r, j) == TruthyList(r.steps[j].images) /\ Truthy(r.steps[j].images[1].path)

DrawsOf(doc, kind, i, op) ==
    {n \in DOMAIN doc : doc[n].of = <<kind, i>> /\ doc[n].op = op}

\* the draw calls process_recipe makes for r, all of them and each once
Complete(r, doc) ==
    /\ \A h \in {"title", "headline", "calories"} :
          Cardinality(DrawsOf(doc, h, 0, "write")) = 1
    /\ Cardinality(DrawsOf(doc, "description", 0, "multi_cell")) = 1
    /\ Cardinality(DrawsOf(doc, "main", 0, "image")) = 1
    /\ \A i \in DOMAIN r.ingredients :
          /\ Cardinality(DrawsOf(doc, "ingr", i, "write")) = IF Excluded(r, i) THEN 0 ELSE 2
          /\ Cardinality(DrawsOf(doc, "ingr", i, "image")) =
                IF ~Excluded(r, i) /\ Truthy(r.ingredients[i].imagePath) THEN 1 ELSE 0
    /\ \A j \in DOMAIN r.steps :
          /\ Cardinality(DrawsOf(doc, "step", j, "multi_cell")) = 1
          /\ Cardinality(DrawsOf(doc, "step", j, "image")) = IF HasStepImage(r, j) THEN 1 ELSE 0

\* a property of the documents: of each one being composed, and of each one
\* written, which is then also complete for a recipe of that path
AllDocuments(P(_, _)) ==
    /\ \A t \in DOMAIN task : P(recipes[t], task[t].pdf)
    /\ \A p \in DOMAIN out :
          \E t \in DOMAIN task :
             /\ Renderable(recipes[t])
             /\ ResolvedPath(recipes[t]) = p
             /\ Complete(recipes[t], out[p])
             /\ P(recipes[t], out[p])

WrittenFor(t) ==
    /\ Renderable(recipes[t])
    /\ ResolvedPath(recipes[t]) \in DOMAIN out

(***************************************************************************)
(* C1: in a batch where one recipe fails, on an image request answered     *)
(* with a non-success status, every other renderable recipe has its        *)
(* document written when the batch is over.                                *)
(***************************************************************************)
C1_FailureIsolated ==
    LET failed == {u \in DOMAIN task : task[u].status = "Failed"}
    IN  (run = 1 /\ AllDone /\ Cardinality(failed) = 1
                 /\ \A u \in failed : task[u].cause = "fetch")
            => \A t \in DOMAIN task \ failed : Renderable(recipes[t]) => WrittenFor(t)

NoProperty(r, doc) == TRUE

EmptyOrAbsent(list) == list = <<>> \/ list = NoneList

C4_MalformedSkipped ==
    \A t \in DOMAIN task :
        (EmptyOrAbsent(recipes[t].steps) \/ EmptyOrAbsent(recipes[t].ingredients))
            => /\ task[t].status \in {"Pending", "Running", "SkippedMalformed", "Dropped"}
               /\ task[t].pc \in {"pending", "resolve", "done"}
               /\ Calls(t, {"makedirs", "request", "open", "output"}) = {}

C4_Witness ==
    \E t \in DOMAIN task :
        /\ task[t].status = "SkippedMalformed"
        /\ recipes[t].author # None
        /\ ~derive(recipes[t].name, recipes[t].headline).ok
        /\ ~TruthyList(recipes[t].nutrition)

(***************************************************************************)
(* C5: for a display name that contains " with", once or more often, the   *)
(* split completes and gives the part before the first " with" as name     *)
(* and "With" followed by the rest as headline, whatever the headline was. *)
(***************************************************************************)
FirstWith(name) ==
    SetMin({i \in 1..(Len(name) - 4) : SubSeq(name, i, i + 4) = <<" ", "w", "i", "t", "h">>})

C5_SplitAtWith ==
    (drv.done /\ drv.name # None /\ Contains(drv.name, <<" ", "w", "i", "t", "h">>))
        => /\ drv.result.ok
           /\ drv.result.name = SubSeq(drv.name, 1, FirstWith(drv.name) - 1)
           /\ drv.result.headline =
                 <<"W", "i", "t", "h">> \o
                     SubSeq(drv.name, FirstWith(drv.name) + 5, Len(drv.name))

(***************************************************************************)
(* C6: get_ingredient_details renders an amount as a glyph only when it is *)
(* exactly 0.25, 0.5 or 0.75, and every other amount as str() gives it.    *)
(***************************************************************************)
AmountText(amount) ==
    IF amount = FloatAmount(25) THEN <<Quarter>>
    ELSE IF amount = FloatAmount(50) THEN <<Half>>
    ELSE IF amount = FloatAmount(75) THEN <<ThreeQuarters>>
    ELSE str(amount)

C6_GlyphOnlyWhenExact ==
    LET portion == fmt.recipe.yields[1].ingredients[1]
        plural == IF portion.amount.kind # "none" /\ portion.amount.h > 100
                  THEN <<"s">> ELSE <<>>
    IN  (fmt.done /\ portion.unit # None)
            => fmt.result[1] =
                  IF portion.unit = <<"u", "n", "i", "t">> THEN AmountText(portion.amount)
                  ELSE AmountText(portion.amount) \o <<" ">> \o portion.unit \o plural

(***************************************************************************)
(* C7: the k-th ingredient that is not in the exclusion set, counted from  *)
(* 0 in input order, has its image at x = 10 + 46*(k mod 4) and            *)
(* y = 62 + 13*floor(k/4); an excluded ingredient gets no image and no     *)
(* text and takes no slot.                                                 *)
(***************************************************************************)
Grid(r, doc) ==
    \A n \in DOMAIN doc :
        doc[n].of[1] = "ingr"
            => LET i == doc[n].of[2]
                   k == Slot(r, i)
               IN  /\ r.ingredients[i].name \notin
                         { <<"S", "a", "l", "t">>, <<"P", "e", "p", "p", "e", "r">>,
                           <<"S", "u", "g", "a", "r">>, <<"B", "u", "t", "t", "e", "r">> }
                   /\ doc[n].op = "image"
                         => /\ doc[n].x = 10 + 46 * (k % 4)
                            /\ doc[n].y = 62 + 13 * (k \div 4)

C7_IngredientGrid == AllDocuments(Grid)

\* a written document of five ingredients: the first is excluded, so the
\* image of the fifth is the last of the first row and not the first of
\* the second
C7_Witness ==
    \E p \in DOMAIN out : \E n \in DOMAIN out[p] :
        /\ out[p][n].of = <<"ingr", 5>> /\ out[p][n].op = "image"
        /\ out[p][n].x = 148 /\ out[p][n].y = 62
        /\ Excluded(recipes[1], 1)

(***************************************************************************)
(* C8: with N ingredients rendered, step j (from 0) has its image and its  *)
(* text at y = 67 + 13*ceil(N/4) + 26*j; N counts the rendered             *)
(* ingredients, not all of them.                                           *)
(***************************************************************************)
StepRows(r, doc) ==
    LET N == Cardinality(RenderedIngr(r))
    IN  \A n \in DOMAIN doc :
            doc[n].of[1] = "step"
                => doc[n].y = 67 + 13 * ((N + 3) \div 4) + 26 * (doc[n].of[2] - 1)

C8_StepOrigin == AllDocuments(StepRows)

\* a written document whose second step has an image, and whose rendered
\* ingredients fill one row while all its ingredients would take two
C8_Witness ==
    \E p \in DOMAIN out : \E n \in DOMAIN out[p] :
        /\ out[p][n].of = <<"step", 2>> /\ out[p][n].op = "image"
        /\ Cardinality(RenderedIngr(recipes[1])) = 4
        /\ Len(recipes[1].ingredients) = 5
        /\ out[p][n].y = 106

(***************************************************************************)
(* C9: under every interleaving of the workers, each output path is        *)
(* written at most once in a run: of two recipes that resolve to the same  *)
(* path at most one calls pdf.output.                                      *)
(***************************************************************************)
C9_PathWrittenOnce ==
    \A p \in DOMAIN out :
        Cardinality({e \in log : e.op = "output" /\ e.name = p}) <= 1

(***************************************************************************)
(* C10: when workers call save_image for the same name concurrently and    *)
(* no response breaks off, a worker that finds the cache file gets the     *)
(* whole image: no document has a partially written file placed in it.     *)
(***************************************************************************)
NoPartialImage(r, doc) == \A n \in DOMAIN doc : doc[n].content # "partial"

C10_NoPartialImagePlaced ==
    (run = 1 /\ \A t \in DOMAIN task : task[t].cause \notin {"stream", "image"})
        => /\ \A t \in DOMAIN task : NoPartialImage(recipes[t], task[t].pdf)
           /\ \A p \in DOMAIN out : NoPartialImage(recipes[1], out[p])

====
